---- MODULE Spec2Model ----
(***************************************************************************)
(* Model of NarrativeSphereAI's core:                                      *)
(*   - BaseNetwork (src/common/base.py): a networkx DiGraph over agent     *)
(*     ids, random construction and the edge mutations;                    *)
(*   - Node (src/graph/node.py): broadcast / evaluate / cherry-pick over   *)
(*     the broadcast buffer and the chain.                                 *)
(* Probabilities, random draws and importance scores are kept in tenths:   *)
(* 5 stands for 0.5, 10 for 1.0; random.random() returns a value in        *)
(* [0, 1), i.e. 0..9 tenths.                                               *)
(***************************************************************************)
EXTENDS Integers, Sequences, FiniteSets, TLC

\* Bound on the number of mutation calls made on one network.
MaxOps == 2

\* Bounds on the length of the broadcast buffer and of the chain.
MaxBuffer == 2
MaxChain == 2

\* cherrypick_messages commits a message whose importance is > 0.5.
Threshold == 5

\* The universe of node identifiers a caller may name.
Ids == {"a", "b", "c"}

\* Edge probabilities p, and outcomes of random.random(), in tenths.
PValues == {0, 5, 10}
Draws == {0, 5, 9}

Range(s) == {s[i] : i \in 1..Len(s)}

\* Lists of distinct agent ids (the agent_ids argument of BaseNetwork).  The
\* code handles ids only through equality and hashing, so one list of each
\* length stands for its renamings; the calls made later name any of Ids.
AgentLists == {SubSeq(<<"a", "b", "c">>, 1, n) : n \in 0..3}

-----------------------------------------------------------------------------
(* networkx.DiGraph, as far as BaseNetwork uses it: the nodes in insertion  *)
(* order and, per node, its successors in insertion order.                 *)

EmptyGraph == [nodes |-> <<>>, succ |-> [n \in Ids |-> <<>>]]

\* DiGraph.add_node: a node already present keeps its place.
AddNode(g, n) ==
  IF n \in Range(g.nodes) THEN g ELSE [g EXCEPT !.nodes = Append(@, n)]

RECURSIVE AddNodesFrom(_, _)
AddNodesFrom(g, ids) ==
  IF ids = <<>> THEN g ELSE AddNodesFrom(AddNode(g, Head(ids)), Tail(ids))

HasEdge(g, u, v) == v \in Range(g.succ[u])

\* DiGraph.add_edge: adds the endpoints that are missing, then the edge; an
\* edge already present keeps its place among u's successors.
AddEdge(g, u, v) ==
  LET g1 == AddNode(AddNode(g, u), v)
  IN  IF HasEdge(g1, u, v) THEN g1 ELSE [g1 EXCEPT !.succ[u] = Append(@, v)]

\* DiGraph.remove_edge of a present edge (an absent one raises NetworkXError,
\* which the callers below decide before calling this).
RemoveEdge(g, u, v) ==
  [g EXCEPT !.succ[u] = SelectSeq(@, LAMBDA x : x # v)]

Edges(g) == {e \in Ids \X Ids : HasEdge(g, e[1], e[2])}
Nodes(g) == Range(g.nodes)

\* A to_json that lists, for each node, its predecessors.
ToJsonPredecessors(g) ==
  [k \in 1..Len(g.nodes) |->
     [key |-> g.nodes[k],
      value |-> SelectSeq(g.nodes, LAMBDA u : HasEdge(g, u, g.nodes[k]))]]

\* BaseNetwork.to_json: the dict {str(node): list(successors(node))} over
\* graph.nodes, as json.dumps writes it: the entries in the dict's order,
\* each a key and the list of neighbours.  The ids are strings, which str()
\* returns as they are.
ToJson(g) ==
  [k \in 1..Len(g.nodes) |->
     [key |-> g.nodes[k], value |-> g.succ[g.nodes[k]]]]

-----------------------------------------------------------------------------
(* BaseNetwork.generate_random_digraph                                      *)

\* itertools.permutations(ids, 2): ordered pairs of positions, in index order.
RECURSIVE PairsFrom(_, _, _)
PairsFrom(ids, i, j) ==
  IF i > Len(ids) THEN <<>>
  ELSE IF j > Len(ids) THEN PairsFrom(ids, i + 1, 1)
  ELSE IF i = j THEN PairsFrom(ids, i, j + 1)
  ELSE <<(<<ids[i], ids[j]>>)>> \o PairsFrom(ids, i, j + 1)

Permutations2(ids) == PairsFrom(ids, 1, 1)

\* A loop body without the reverse-edge test.
GenStepNoSkip(g, start, end, prob, draw) ==
  IF draw <= prob THEN AddEdge(g, start, end) ELSE g

\* A loop body that tests the pair's own direction instead of the reverse.
GenStepSameWay(g, start, end, prob, draw) ==
  IF HasEdge(g, start, end) THEN g
  ELSE IF draw <= prob THEN AddEdge(g, start, end)
  ELSE g

\* One iteration of the loop: skip when the reverse edge exists, otherwise add
\* the edge when the draw is <= p.
GenStep(g, start, end, prob, draw) ==
  IF HasEdge(g, end, start) THEN g
  ELSE IF draw <= prob THEN AddEdge(g, start, end)
  ELSE g

\* The whole loop; draw[k] is the outcome of random.random() reserved for the
\* k-th pair (it is consumed only when the pair is not skipped).
RECURSIVE GenLoop(_, _, _, _, _)
GenLoop(g, pairs, k, prob, draw) ==
  IF k > Len(pairs) THEN g
  ELSE GenLoop(GenStep(g, pairs[k][1], pairs[k][2], prob, draw[k]),
               pairs, k + 1, prob, draw)

GenerateRandomDigraph(g, ids, prob, draw) ==
  GenLoop(g, Permutations2(ids), 1, prob, draw)

DrawSeqs(ids) == [1..Len(Permutations2(ids)) -> Draws]

-----------------------------------------------------------------------------
VARIABLES
  agent_ids,    \* BaseNetwork.agent_ids
  p,            \* BaseNetwork.p, in tenths
  graph,        \* BaseNetwork.graph
  constructed,  \* BaseNetwork.__init__ has returned
  last,         \* the last call made on the network and its outcome
  nops,         \* number of mutation calls made so far
  node_p,       \* Node.p, in tenths
  messages,     \* Node.broadcast.messages, the buffer
  contents,     \* the content dicts: content id -> its "importance" entry
  chain,        \* Node.chain: the messages add_block accepted, in order
  nlast,        \* the last pipeline call made on the Node and its outcome
  world,        \* the WorldState the driver constructed
  wjson,        \* what world.to_json() last returned
  world2,       \* what WorldState.from_json last returned
  wlast         \* the last WorldState call and its outcome

netvars == <<agent_ids, p, graph, constructed, last, nops>>
nodevars == <<node_p, messages, contents, chain, nlast>>
worldvars == <<world, wjson, world2, wlast>>
vars == <<agent_ids, p, graph, constructed, last, nops,
          node_p, messages, contents, chain, nlast,
          world, wjson, world2, wlast>>

NoCall == [op |-> "none", start |-> "-", end |-> "-", action |-> "-",
           agreed |-> FALSE, result |-> "-", changed |-> FALSE]

-----------------------------------------------------------------------------
(* Messages and their contents.  A content dict is an object: BaseMessage   *)
(* keeps the reference it is given, so two messages built from the same    *)
(* dict share it.  Content id 0 is the dict of the source message the      *)
(* caller hands to broadcast_messages; the message at buffer position i    *)
(* that was built from a dict of its own has content id i.                *)

SrcContent == 0
Unset == -1
Missing == "<missing>"

\* Outcomes of state.evaluate, in tenths.
Scores == {4, 5, 9}

ContentIds == 0..MaxBuffer

\* BaseMessage.__init__: sender, receiver, message_type and content are
\* required; a call that leaves one out raises TypeError.
BaseMessage(sender, receiver, message_type, content) ==
  IF Missing \in {sender, receiver, message_type}
  THEN [err |-> "TypeError", msg |-> <<>>]
  ELSE [err |-> "-",
        msg |-> [sender |-> sender, receiver |-> receiver,
                 message_type |-> message_type, content |-> content]]

Importance(h, m) == h[m.content]

NoNodeCall == [op |-> "none", result |-> "-", scores |-> <<>>, before |-> 0,
               failAt |-> 0]

\* No Node has been built on the network.
NoNode ==
  /\ node_p = 0
  /\ messages = <<>>
  /\ contents = [c \in ContentIds |-> Unset]
  /\ chain = <<>>
  /\ nlast = NoNodeCall

NoObject == [t |-> "-"]
NoWorldCall == [op |-> "none", result |-> "-", dropped |-> "-",
                nulled |-> FALSE]

\* No WorldState has been built.
NoWorld ==
  /\ world = NoObject
  /\ wjson = NoObject
  /\ world2 = NoObject
  /\ wlast = NoWorldCall

\* A caller about to construct BaseNetwork(agent_ids, p).
Init ==
  /\ agent_ids \in AgentLists
  /\ p \in PValues
  /\ graph = EmptyGraph
  /\ constructed = FALSE
  /\ last = NoCall
  /\ nops = 0
  /\ NoNode
  /\ NoWorld

\* BaseNetwork.__init__
BaseNetworkInit ==
  /\ ~constructed
  /\ \E draw \in DrawSeqs(agent_ids) :
       graph' = GenerateRandomDigraph(AddNodesFrom(EmptyGraph, agent_ids),
                                      agent_ids, p, draw)
  /\ constructed' = TRUE
  /\ last' = [NoCall EXCEPT !.op = "__init__", !.result = "None"]
  /\ UNCHANGED <<agent_ids, p, nops>>
  /\ UNCHANGED nodevars
  /\ UNCHANGED worldvars

-----------------------------------------------------------------------------
(* The edge mutations.  Each yields the new graph and what the call returns *)
(* or raises.                                                              *)

\* A disconnect_edge without the has_edge test: networkx's remove_edge
\* raises on an absent edge.
DisconnectEdgeUnguarded(g, start, end) ==
  IF HasEdge(g, start, end)
  THEN [g |-> RemoveEdge(g, start, end), result |-> "None"]
  ELSE [g |-> g, result |-> "NetworkXError"]

DisconnectEdge(g, start, end) ==
  IF HasEdge(g, start, end)
  THEN [g |-> RemoveEdge(g, start, end), result |-> "None"]
  ELSE [g |-> g, result |-> "None"]

ConnectEdge(g, start, end) ==
  IF ~HasEdge(g, start, end)
  THEN [g |-> AddEdge(g, start, end), result |-> "None"]
  ELSE [g |-> g, result |-> "None"]

\* A reverse_edge that adds end->start whether or not start->end was there.
ReverseEdgeSilent(g, start, end) ==
  [g |-> AddEdge(RemoveEdge(g, start, end), end, start), result |-> "None"]

\* remove_edge raises NetworkXError when start->end is absent, before
\* add_edge is reached.
ReverseEdge(g, start, end) ==
  IF ~HasEdge(g, start, end)
  THEN [g |-> g, result |-> "NetworkXError"]
  ELSE [g |-> AddEdge(RemoveEdge(g, start, end), end, start), result |-> "None"]

ActionNames == {"reverse", "disconnect", "connect", "rewire"}

\* An execute that does not consult the predicate before disconnecting.
ExecuteUngated(g, start, end, agreed, action) ==
  IF agreed \/ action = "disconnect" THEN
    CASE action = "reverse" -> ReverseEdge(g, start, end)
      [] action = "disconnect" ->
           [g |-> DisconnectEdge(g, start, end).g, result |-> "True"]
      [] action = "connect" ->
           [g |-> ConnectEdge(g, start, end).g, result |-> "True"]
      [] OTHER -> [g |-> g, result |-> "ValueError"]
  ELSE [g |-> g, result |-> "False"]

\* execute; agreed is what method(start, end, action) returned.
Execute(g, start, end, agreed, action) ==
  IF agreed THEN
    CASE action = "reverse" -> ReverseEdge(g, start, end)
      [] action = "disconnect" ->
           [g |-> DisconnectEdge(g, start, end).g, result |-> "True"]
      [] action = "connect" ->
           [g |-> ConnectEdge(g, start, end).g, result |-> "True"]
      [] OTHER -> [g |-> g, result |-> "ValueError"]
  ELSE [g |-> g, result |-> "False"]

\* A call on the constructed network: r is its outcome.
Called(op, start, end, action, agreed, r) ==
  /\ graph' = r.g
  /\ last' = [op |-> op, start |-> start, end |-> end, action |-> action,
              agreed |-> agreed, result |-> r.result, changed |-> r.g # graph]
  /\ nops' = nops + 1
  /\ UNCHANGED <<agent_ids, p, constructed>>
  /\ UNCHANGED nodevars
  /\ UNCHANGED worldvars

CanCall == constructed /\ nops < MaxOps

CallDisconnect ==
  /\ CanCall
  /\ \E start, end \in Ids :
       Called("disconnect_edge", start, end, "-", FALSE,
              DisconnectEdge(graph, start, end))

CallConnect ==
  /\ CanCall
  /\ \E start, end \in Ids :
       Called("connect_edge", start, end, "-", FALSE,
              ConnectEdge(graph, start, end))

CallReverse ==
  /\ CanCall
  /\ \E start, end \in Ids :
       Called("reverse_edge", start, end, "-", FALSE,
              ReverseEdge(graph, start, end))

CallExecute ==
  /\ CanCall
  /\ \E start, end \in Ids, agreed \in BOOLEAN, action \in ActionNames :
       Called("execute", start, end, action, agreed,
              Execute(graph, start, end, agreed, action))

Next ==
  \/ BaseNetworkInit
  \/ CallDisconnect
  \/ CallConnect
  \/ CallReverse
  \/ CallExecute

Spec == Init /\ [][Next]_vars

-----------------------------------------------------------------------------
(* Node: the broadcast / evaluate / cherry-pick pipeline.                   *)

\* broadcast_messages: for each node of the graph, in order, a draw < p
\* builds BaseMessage(sender=, receiver=, content=) -- no message_type --
\* and appends it.  draw[k] is the draw made for the k-th node.
RECURSIVE BroadcastLoop(_, _, _, _, _, _)
BroadcastLoop(msgs, nodes, k, prob, draw, content) ==
  IF k > Len(nodes) THEN [messages |-> msgs, result |-> "None"]
  ELSE IF draw[k] < prob
       THEN LET m == BaseMessage("CentralNod", nodes[k], Missing, content)
            IN  IF m.err # "-"
                THEN [messages |-> msgs, result |-> m.err]
                ELSE BroadcastLoop(Append(msgs, m.msg), nodes, k + 1,
                                   prob, draw, content)
       ELSE BroadcastLoop(msgs, nodes, k + 1, prob, draw, content)

\* evaluate_messages: writes state.evaluate(content) into the content dict
\* of each buffered message, in order.  scores[k] is what the scorer returns
\* for the k-th message (the scorer is taken to return a score each time).
RECURSIVE EvaluateLoop(_, _, _, _)
EvaluateLoop(h, msgs, k, scores) ==
  IF k > Len(msgs) THEN [contents |-> h, result |-> "None"]
  ELSE EvaluateLoop([h EXCEPT ![msgs[k].content] = scores[k]],
                    msgs, k + 1, scores)

\* A cherry-pick that also commits a message at the threshold.
RECURSIVE CherrypickAtLeast(_, _, _, _, _)
CherrypickAtLeast(ch, h, msgs, k, failAt) ==
  IF k > Len(msgs) THEN [chain |-> ch, result |-> "None"]
  ELSE IF Importance(h, msgs[k]) = Unset
       THEN [chain |-> ch, result |-> "KeyError"]
  ELSE IF Importance(h, msgs[k]) >= Threshold
       THEN IF k = failAt
            THEN [chain |-> ch, result |-> "CommitError"]
            ELSE CherrypickAtLeast(Append(ch, k), h, msgs, k + 1, failAt)
  ELSE CherrypickAtLeast(ch, h, msgs, k + 1, failAt)

\* A cherry-pick that catches add_block's failure and goes on to the next
\* message.
RECURSIVE CherrypickSwallow(_, _, _, _, _)
CherrypickSwallow(ch, h, msgs, k, failAt) ==
  IF k > Len(msgs) THEN [chain |-> ch, result |-> "None"]
  ELSE IF Importance(h, msgs[k]) = Unset
       THEN [chain |-> ch, result |-> "KeyError"]
  ELSE IF Importance(h, msgs[k]) > Threshold
       THEN IF k = failAt
            THEN CherrypickSwallow(ch, h, msgs, k + 1, failAt)
            ELSE CherrypickSwallow(Append(ch, k), h, msgs, k + 1, failAt)
  ELSE CherrypickSwallow(ch, h, msgs, k + 1, failAt)

\* A cherry-pick that skips the messages the chain already holds.
RECURSIVE CherrypickOnce(_, _, _, _, _)
CherrypickOnce(ch, h, msgs, k, failAt) ==
  IF k > Len(msgs) THEN [chain |-> ch, result |-> "None"]
  ELSE IF Importance(h, msgs[k]) = Unset
       THEN [chain |-> ch, result |-> "KeyError"]
  ELSE IF Importance(h, msgs[k]) > Threshold /\ k \notin Range(ch)
       THEN IF k = failAt
            THEN [chain |-> ch, result |-> "CommitError"]
            ELSE CherrypickOnce(Append(ch, k), h, msgs, k + 1, failAt)
  ELSE CherrypickOnce(ch, h, msgs, k + 1, failAt)

\* cherrypick_messages: add_block(message) for each buffered message whose
\* content["importance"] > 0.5, in order.  A content without the key raises
\* KeyError; add_block raises on message failAt (0: never).  The chain is
\* kept as the buffer positions of the messages add_block accepted.
RECURSIVE CherrypickLoop(_, _, _, _, _)
CherrypickLoop(ch, h, msgs, k, failAt) ==
  IF k > Len(msgs) THEN [chain |-> ch, result |-> "None"]
  ELSE IF Importance(h, msgs[k]) = Unset
       THEN [chain |-> ch, result |-> "KeyError"]
  ELSE IF Importance(h, msgs[k]) > Threshold
       THEN IF k = failAt
            THEN [chain |-> ch, result |-> "CommitError"]
            ELSE CherrypickLoop(Append(ch, k), h, msgs, k + 1, failAt)
  ELSE CherrypickLoop(ch, h, msgs, k + 1, failAt)

\* The agent lists the Node specification starts from: the pipeline reads
\* only graph.nodes(), so the empty list and one list of all the agents stand
\* for the others.
NodeAgentLists == {<<>>, <<"a", "b", "c">>}

\* Node(base_network, p) built on a constructed network.  The pipeline never
\* reads the edges: the network is one built with the Node's p in which
\* every draw came out 0.9.
InitNode ==
  /\ agent_ids \in NodeAgentLists
  /\ p \in PValues
  /\ graph = GenerateRandomDigraph(AddNodesFrom(EmptyGraph, agent_ids),
                                   agent_ids, p,
                                   [k \in 1..Len(Permutations2(agent_ids)) |-> 9])
  /\ constructed = TRUE
  /\ last = [NoCall EXCEPT !.op = "__init__", !.result = "None"]
  /\ nops = 0
  /\ node_p = p
  /\ messages = <<>>
  /\ contents = [c \in ContentIds |-> Unset]
  /\ chain = <<>>
  /\ nlast = NoNodeCall
  /\ NoWorld

CanCallNode == constructed

NodeCalled(op, result, scores, failAt) ==
  /\ nlast' = [op |-> op, result |-> result, scores |-> scores,
               before |-> Len(messages), failAt |-> failAt]
  /\ UNCHANGED netvars
  /\ UNCHANGED node_p
  /\ UNCHANGED worldvars

\* The agent a direct send addresses: the agents in turn.
NextReceiver ==
  IF graph.nodes = <<>> THEN "a"
  ELSE graph.nodes[(Len(messages) % Len(graph.nodes)) + 1]

\* A direct send: the caller builds a complete BaseMessage, from the source
\* message's content dict or from a dict of its own, and appends it to
\* node.broadcast.messages.
DirectSend ==
  /\ constructed
  /\ Len(messages) < MaxBuffer
  /\ \E content \in {SrcContent, Len(messages) + 1} :
       LET m == BaseMessage("CentralNod", NextReceiver, "global_event", content)
       IN  /\ m.err = "-"
           /\ messages' = Append(messages, m.msg)
  /\ nlast' = [op |-> "append", result |-> "None", scores |-> <<>>,
               before |-> Len(messages), failAt |-> 0]
  /\ UNCHANGED <<contents, chain, node_p>>
  /\ UNCHANGED netvars
  /\ UNCHANGED worldvars

\* node.broadcast_messages(source), source.content being dict SrcContent.
BroadcastMessages ==
  /\ CanCallNode
  /\ \E draw \in [1..Len(graph.nodes) -> Draws] :
       LET r == BroadcastLoop(messages, graph.nodes, 1, node_p, draw,
                              SrcContent)
       IN  /\ Len(r.messages) <= MaxBuffer
           /\ messages' = r.messages
           /\ NodeCalled("broadcast_messages", r.result, <<>>, 0)
  /\ UNCHANGED <<contents, chain>>

\* node.evaluate_messages()
EvaluateMessages ==
  /\ CanCallNode
  /\ \E scores \in [1..Len(messages) -> Scores] :
       LET r == EvaluateLoop(contents, messages, 1, scores)
       IN  /\ contents' = r.contents
           /\ NodeCalled("evaluate_messages", r.result, scores, 0)
  /\ UNCHANGED <<messages, chain>>

\* The buffer positions for which a cherry-pick pass over msgs calls
\* add_block: those above the threshold that the loop gets to.
AddBlockCalls(h, msgs) ==
  {k \in 1..Len(msgs) :
     /\ Importance(h, msgs[k]) > Threshold
     /\ \A j \in 1..k : Importance(h, msgs[j]) # Unset}

\* node.cherrypick_messages(); failAt is the add_block call the chain
\* rejects in this pass (0: none).
CherrypickMessages ==
  /\ CanCallNode
  /\ \E failAt \in {0} \cup AddBlockCalls(contents, messages) :
       LET r == CherrypickLoop(chain, contents, messages, 1, failAt)
       IN  /\ Len(r.chain) <= MaxChain
           /\ chain' = r.chain
           /\ NodeCalled("cherrypick_messages", r.result, <<>>, failAt)
  /\ UNCHANGED <<messages, contents>>

NextNode ==
  \/ DirectSend
  \/ BroadcastMessages
  \/ EvaluateMessages
  \/ CherrypickMessages

SpecNode == InitNode /\ [][NextNode]_vars

-----------------------------------------------------------------------------
(* WorldState: construction, to_json and from_json.  Python values and the  *)
(* JSON values json.dumps writes are tagged records; the items of the      *)
(* lists are strings, which JSON keeps as strings.                         *)

PyNone == [t |-> "None"]
PyDict == [t |-> "dict"]
PyList(items) == [t |-> "list", items |-> items]
BaseNetworkClass == [t |-> "class"]
PyBaseNetwork(g) == [t |-> "BaseNetwork", graph |-> g]
TypeError == [t |-> "TypeError"]

JNull == [t |-> "null"]
JObject == [t |-> "object"]
JArray(items) == [t |-> "array", items |-> items]
JAbsent == [t |-> "absent"]

Fields == {"base_network", "global_events", "local_events", "agent_states",
           "global_motifs"}

\* BaseNetwork's default p, in tenths.
DefaultP == 5

\* json.dumps of one value: None, {} and lists have a JSON form, a
\* BaseNetwork object has none.
Dumps(v) ==
  CASE v.t = "None" -> JNull
    [] v.t = "dict" -> JObject
    [] v.t = "list" -> JArray(v.items)
    [] OTHER -> TypeError

\* json.loads of one value.
Loads(j) ==
  CASE j.t = "null" -> PyNone
    [] j.t = "object" -> PyDict
    [] j.t = "array" -> PyList(j.items)

\* base_network(agent_list): calling the class BaseNetwork builds a network
\* over the list (add_nodes_from(None) raises TypeError); calling anything
\* else raises TypeError, a dict not being callable.
Call(f, agent_list, draw) ==
  IF f.t = "class"
  THEN IF agent_list.t = "list"
       THEN PyBaseNetwork(
              GenerateRandomDigraph(AddNodesFrom(EmptyGraph, agent_list.items),
                                    agent_list.items, DefaultP, draw))
       ELSE TypeError
  ELSE TypeError

\* "x if x is not None else []"
OrEmptyList(v) == IF v.t # "None" THEN v ELSE PyList(<<>>)

\* WorldState.__init__
WorldStateNew(agent_list, base_network, global_events, local_events, agent_states, global_motifs, draw) ==
  LET bn == IF base_network.t # "None"
            THEN Call(base_network, agent_list, draw)
            ELSE PyDict
  IN  IF bn.t = "TypeError" THEN [err |-> "TypeError", obj |-> NoObject]
      ELSE [err |-> "-",
            obj |-> [t |-> "WorldState",
                     base_network |-> bn,
                     global_events |-> OrEmptyList(global_events),
                     local_events |-> OrEmptyList(local_events),
                     agent_states |-> OrEmptyList(agent_states),
                     global_motifs |-> OrEmptyList(global_motifs)]]

\* WorldState.to_json: json.dumps of the dict of the five fields.
WorldToJson(w) ==
  LET doc == [f \in Fields |-> Dumps(w[f])]
  IN  IF \E f \in Fields : doc[f].t = "TypeError"
      THEN [err |-> "TypeError", text |-> NoObject]
      ELSE [err |-> "-", text |-> [t |-> "str", doc |-> doc]]

\* data.get(key, default)
Get(data, key, default) ==
  IF data[key].t = "absent" THEN default ELSE Loads(data[key])

\* WorldState.from_json: json.loads, then cls(...) with agent_list left out.
WorldFromJson(text) ==
  LET data == text.doc
  IN  WorldStateNew(PyNone,
                    Get(data, "base_network", PyDict),
                    Get(data, "global_events", PyList(<<>>)),
                    Get(data, "local_events", PyList(<<>>)),
                    Get(data, "agent_states", PyList(<<>>)),
                    Get(data, "global_motifs", PyList(<<>>)),
                    <<>>)

\* The arguments a driver constructs a WorldState from.
WorldAgentLists == {PyNone, PyList(<<>>), PyList(<<"a", "b">>)}
ListArgs(item) == {PyNone, PyList(<<>>), PyList(<<item>>)}

\* The payload handed to from_json: what to_json returned, less the key
\* dropped ("-": none), with base_network set to null when nulled.
Payload(text, dropped, nulled) ==
  [text EXCEPT !.doc =
     [f \in Fields |->
        IF f = "base_network" /\ nulled THEN JNull
        ELSE IF f = dropped THEN JAbsent
        ELSE text.doc[f]]]

InitWorld ==
  /\ agent_ids = <<>>
  /\ p = 0
  /\ graph = EmptyGraph
  /\ constructed = FALSE
  /\ last = NoCall
  /\ nops = 0
  /\ NoNode
  /\ NoWorld

WorldCalled(op, result, dropped, nulled) ==
  /\ wlast' = [op |-> op, result |-> result, dropped |-> dropped,
               nulled |-> nulled]
  /\ UNCHANGED netvars
  /\ UNCHANGED nodevars

\* WorldState(agent_list, base_network, global_events, ...)
CallWorldState ==
  /\ world = NoObject
  /\ \E agent_list \in WorldAgentLists,
        base_network \in {PyNone, BaseNetworkClass},
        global_events \in ListArgs("g1"), local_events \in ListArgs("l1"),
        agent_states \in ListArgs("s1"), global_motifs \in ListArgs("m1") :
       \E draw \in DrawSeqs(IF agent_list.t = "list" THEN agent_list.items
                             ELSE <<>>) :
         LET r == WorldStateNew(agent_list, base_network, global_events,
                                local_events, agent_states, global_motifs,
                                draw)
         IN  /\ world' = r.obj
             /\ WorldCalled("__init__",
                            IF r.err = "-" THEN "None" ELSE r.err, "-", FALSE)
  /\ UNCHANGED <<wjson, world2>>

\* world.to_json()
CallWorldToJson ==
  /\ world # NoObject
  /\ LET r == WorldToJson(world)
     IN  /\ wjson' = IF r.err = "-" THEN r.text ELSE wjson
         /\ WorldCalled("to_json", IF r.err = "-" THEN "str" ELSE r.err,
                        "-", FALSE)
  /\ UNCHANGED <<world, world2>>

\* WorldState.from_json(payload)
CallWorldFromJson ==
  /\ wjson # NoObject
  /\ \E dropped \in Fields \cup {"-"}, nulled \in BOOLEAN :
       LET r == WorldFromJson(Payload(wjson, dropped, nulled))
       IN  /\ world2' = r.obj
           /\ WorldCalled("from_json",
                          IF r.err = "-" THEN "WorldState" ELSE r.err,
                          dropped, nulled)
  /\ UNCHANGED <<world, wjson>>

NextWorld ==
  \/ CallWorldState
  \/ CallWorldToJson
  \/ CallWorldFromJson

SpecWorld == InitWorld /\ [][NextWorld]_vars

-----------------------------------------------------------------------------
(* Claims about the topology.                                              *)

Bidirectional(g) ==
  \E a, b \in Ids : a # b /\ HasEdge(g, a, b) /\ HasEdge(g, b, a)

SelfLoop(g) == \E a \in Ids : HasEdge(g, a, a)

\* C1: after construction and after any sequence of connect_edge,
\* disconnect_edge, reverse_edge and execute calls, no two distinct agents
\* a, b have both a->b and b->a.
C1_NoBidirectionalEver == constructed => ~Bidirectional(graph)

\* C2: the topology generate_random_digraph produces, for every list of
\* distinct agent ids, every p and every outcome of the draws, never holds
\* both a->b and b->a.
C2_GeneratedNoBidirectional ==
  (constructed /\ nops = 0) => ~Bidirectional(graph)

\* C2 witness: a generated topology in which a pair was taken in its second
\* direction (the first direction lost its draw, the reverse one won).
C2_Witness ==
  /\ constructed /\ nops = 0
  /\ Len(agent_ids) >= 2
  /\ HasEdge(graph, agent_ids[2], agent_ids[1])
  /\ Cardinality(Edges(graph)) >= 2

\* C3: no topology contains a self-loop, after construction and after any
\* sequence of mutation calls.
C3_NoSelfLoopEver == constructed => ~SelfLoop(graph)

\* C4 as stated: an execute call changes the topology if and only if the
\* predicate returned true.
C4_MutatesIffAgreed ==
  (last.op = "execute" /\ last.action \in {"reverse", "disconnect", "connect"})
    => (last.changed <=> last.agreed)

\* C4 amended: execute applies the primitive named by action exactly when the
\* predicate returned true.  When it returned false the graph (nodes, edges
\* and their order) is unchanged and False is returned; when it returned
\* true the edge set is the one the primitive yields, which equals the old
\* one when the primitive has nothing to do or raises.
C4_AppliesIffAgreed ==
  [][ (last'.op = "execute" /\ nops' = nops + 1) =>
        LET s == last'.start
            e == last'.end
            E == Edges(graph)
        IN  /\ ~last'.agreed => (graph' = graph /\ last'.result = "False")
            /\ graph' # graph => last'.agreed
            /\ (last'.agreed /\ last'.action = "connect") =>
                 Edges(graph') = E \cup {<<s, e>>}
            /\ (last'.agreed /\ last'.action = "disconnect") =>
                 Edges(graph') = E \ {<<s, e>>}
            /\ (last'.agreed /\ last'.action = "reverse" /\ <<s, e>> \in E) =>
                 Edges(graph') = (E \ {<<s, e>>}) \cup {<<e, s>>}
            /\ (last'.agreed /\ last'.action = "reverse" /\ <<s, e>> \notin E) =>
                 (graph' = graph /\ last'.result = "NetworkXError")
    ]_vars

\* C4 witness: the predicate accepted a connect of an edge that is already
\* there: the action was applied and the topology did not change.
C4_Witness ==
  /\ last.op = "execute" /\ last.agreed /\ last.action = "connect"
  /\ last.result = "True" /\ ~last.changed
  /\ HasEdge(graph, last.start, last.end)

\* C5: reverse_edge(a, b) with a->b present leaves b->a present, a->b absent
\* (for a # b; reversing a self-loop leaves that one edge) and every other
\* edge as it was; with a->b absent it raises and changes nothing, b->a is
\* not added.
C5_ReverseEdge ==
  [][ (last'.op = "reverse_edge" /\ nops' = nops + 1) =>
        LET a == last'.start
            b == last'.end
            E == Edges(graph)
        IN  IF <<a, b>> \in E
            THEN /\ last'.result = "None"
                 /\ Edges(graph') = (E \ {<<a, b>>}) \cup {<<b, a>>}
                 /\ HasEdge(graph', b, a)
                 /\ a # b => ~HasEdge(graph', a, b)
                 /\ Nodes(graph') = Nodes(graph)
            ELSE /\ last'.result = "NetworkXError"
                 /\ graph' = graph
    ]_vars

\* C5 witness: a reverse of an absent edge raised, and the opposite edge was
\* not added.
C5_Witness ==
  /\ last.op = "reverse_edge" /\ last.result = "NetworkXError"
  /\ last.start # last.end
  /\ ~HasEdge(graph, last.end, last.start)
  /\ ~HasEdge(graph, last.start, last.end)

\* C5, second case: an edge was reversed.
C5_WitnessReversed ==
  /\ last.op = "reverse_edge" /\ last.result = "None" /\ last.changed
  /\ HasEdge(graph, last.end, last.start)
  /\ ~HasEdge(graph, last.start, last.end)

-----------------------------------------------------------------------------
(* Claims about the Node pipeline.                                         *)

Buffered == 1..Len(messages)

\* The buffer positions whose message has importance > 0.5 under h, in order.
Qualifying(h) ==
  SelectSeq([k \in Buffered |-> k],
            LAMBDA k : h[messages[k].content] > Threshold)

\* C6: cherrypick_messages commits exactly the buffered messages whose
\* importance is strictly greater than 0.5, in buffer order, and leaves the
\* buffer and the messages as they were.  (When a content has no importance
\* or add_block raises, the pass stops: what it committed before is a prefix
\* of those messages.)
C6_CherrypickExact ==
  [][ nlast'.op = "cherrypick_messages" =>
        /\ messages' = messages
        /\ contents' = contents
        /\ nlast'.result = "None" =>
             /\ chain' = chain \o Qualifying(contents)
             /\ \A k \in Buffered : Importance(contents, messages[k]) # Unset
        /\ nlast'.result # "None" =>
             \E picked \in {SubSeq(Qualifying(contents), 1, n) :
                              n \in 0..Len(Qualifying(contents))} :
               chain' = chain \o picked
    ]_vars

\* C6 witness: after a cherry-pick that returned, a message at exactly 0.5
\* is still buffered and was never committed, and a message above 0.5 was.
C6_Witness ==
  /\ nlast.op = "cherrypick_messages" /\ nlast.result = "None"
  /\ \E i, j \in Buffered :
       /\ Importance(contents, messages[i]) = Threshold
       /\ i \notin Range(chain)
       /\ Importance(contents, messages[j]) > Threshold
       /\ j \in Range(chain)

\* C7: each buffered message carries its own importance score: a broadcast
\* with p = 1.0 into an empty buffer leaves one message per agent, and after
\* evaluate_messages ran with scores s_1..s_n message i has importance s_i
\* (so that cherry-pick commits exactly the i with s_i > 0.5).
C7_OwnImportance ==
  /\ (nlast.op = "broadcast_messages" /\ node_p = 10 /\ nlast.before = 0)
       => Len(messages) = Len(graph.nodes)
  /\ (nlast.op = "evaluate_messages" /\ nlast.result = "None")
       => \A i \in Buffered :
            Importance(contents, messages[i]) = nlast.scores[i]

\* C8: evaluate_messages sets an importance on every buffered message and
\* changes nothing outside the buffer; the source message handed to
\* broadcast_messages, and its content, are the same before and after.
C8_EvaluateFrame ==
  [][ nlast'.op = "evaluate_messages" =>
        /\ nlast'.result = "None" =>
             \A k \in Buffered : Importance(contents', messages[k]) # Unset
        /\ messages' = messages /\ chain' = chain
        /\ contents'[SrcContent] = contents[SrcContent]
    ]_vars

\* C9: broadcast_messages with p = 1.0 appends exactly one message per agent
\* of the node set, addressed to it, whatever the draws; with p = 0.0 it
\* appends nothing.
C9_BroadcastDelivers ==
  nlast.op = "broadcast_messages" =>
    /\ node_p = 10 =>
         /\ nlast.result = "None"
         /\ Len(messages) = nlast.before + Len(graph.nodes)
         /\ \A k \in 1..Len(graph.nodes) :
              /\ nlast.before + k <= Len(messages)
              /\ messages[nlast.before + k].receiver = graph.nodes[k]
    /\ node_p = 0 =>
         /\ nlast.result = "None"
         /\ Len(messages) = nlast.before

\* C10: a message is changed only by evaluation, and never after it has been
\* committed: once add_block(m) has happened, m's importance stays.
C10_CommittedImmutable ==
  [][ /\ contents' # contents => nlast'.op = "evaluate_messages"
      /\ \A k \in Range(chain) :
           /\ messages'[k] = messages[k]
           /\ Importance(contents', messages'[k]) = Importance(contents, messages[k])
    ]_vars

-----------------------------------------------------------------------------
(* The node set, execute's return value, and the boundary probabilities.    *)

\* C11: the node set is fixed at construction: after any sequence of
\* connect_edge, disconnect_edge, reverse_edge and execute calls, with
\* identifiers in or out of the agent list, the graph's nodes are exactly
\* the agents the network was built over, in their order.
C11_NodeSetFixed == constructed => graph.nodes = agent_ids

KnownActions == {"reverse", "disconnect", "connect"}

\* C12: execute on a known action returns True when it applied the action
\* and False when the agreement predicate rejected it.
C12_ExecuteReturnsApplied ==
  (last.op = "execute" /\ last.action \in KnownActions
     /\ last.result # "NetworkXError")
  => last.result = (IF last.agreed THEN "True" ELSE "False")

\* C13: execute with an unknown action name raises, whatever the agreement
\* predicate returns, and leaves the topology as it was.
C13_UnknownActionRaises ==
  (last.op = "execute" /\ last.action \notin KnownActions)
  => (last.result = "ValueError" /\ ~last.changed)

\* The edges a_i -> a_j, i < j, of an agent list.
ForwardEdges(ids) ==
  {<<ids[q[1]], ids[q[2]]>> :
     q \in {r \in (1..Len(ids)) \X (1..Len(ids)) : r[1] < r[2]}}

\* C14: with p = 1.0 the constructed topology over [a_1..a_n] is exactly
\* the edges a_i -> a_j with i < j, whatever the draws.
C14_FullProbabilityForward ==
  (constructed /\ nops = 0 /\ p = 10) => Edges(graph) = ForwardEdges(agent_ids)

C14_Witness ==
  /\ constructed /\ nops = 0 /\ p = 10
  /\ Len(agent_ids) = 3
  /\ Cardinality(Edges(graph)) = 3

\* C15: connect_edge and disconnect_edge never raise and are idempotent:
\* connect leaves exactly the old edges plus start->end, disconnect the old
\* edges less start->end (nothing changes when it was absent), calling the
\* operation again on the result changes nothing, and a second identical
\* call made right after the first leaves the graph as the first left it.
C15_Idempotent ==
  [][ /\ last'.op = "connect_edge" =>
           /\ last'.result = "None"
           /\ Edges(graph') = Edges(graph) \cup {<<last'.start, last'.end>>}
           /\ ConnectEdge(graph', last'.start, last'.end).g = graph'
           /\ (last.op = "connect_edge" /\ last.start = last'.start
                  /\ last.end = last'.end) => graph' = graph
      /\ last'.op = "disconnect_edge" =>
           /\ last'.result = "None"
           /\ Edges(graph') = Edges(graph) \ {<<last'.start, last'.end>>}
           /\ ~HasEdge(graph, last'.start, last'.end) => graph' = graph
           /\ DisconnectEdge(graph', last'.start, last'.end).g = graph'
           /\ (last.op = "disconnect_edge" /\ last.start = last'.start
                  /\ last.end = last'.end) => graph' = graph
    ]_vars

\* A second call found the edge as the first call left it: a connect that
\* changed nothing on a present edge, or a disconnect on an absent one.
C15_Witness ==
  /\ nops = 2
  /\ ~last.changed
  /\ \/ last.op = "connect_edge" /\ HasEdge(graph, last.start, last.end)
     \/ last.op = "disconnect_edge" /\ ~HasEdge(graph, last.start, last.end)

\* C20: with p = 0.0 the constructed topology has no edges, whatever the
\* draws, a draw of exactly 0.0 included.
C20_ZeroProbabilityEmpty ==
  (constructed /\ nops = 0 /\ p = 0) => Edges(graph) = {}

-----------------------------------------------------------------------------
(* Cherry-pick: failures of add_block, and repeated passes.                 *)

\* The qualifying buffer positions that come before position k.
QualifyingBefore(h, k) == SelectSeq(Qualifying(h), LAMBDA j : j < k)

\* C17: when add_block fails on a buffered message during
\* cherrypick_messages, the failure reaches the caller, the messages the
\* pass committed before it stay in the chain after everything the chain
\* held, and the buffer and the messages are as they were.
C17_CommitFailurePropagates ==
  [][ (nlast'.op = "cherrypick_messages" /\ nlast'.failAt # 0) =>
        /\ nlast'.result = "CommitError"
        /\ chain' = chain \o QualifyingBefore(contents, nlast'.failAt)
        /\ messages' = messages
        /\ contents' = contents
    ]_vars

\* C17 witness: add_block failed on the second message of a pass that had
\* committed the first, and the first is in the chain.
C17_Witness ==
  /\ nlast.op = "cherrypick_messages" /\ nlast.result = "CommitError"
  /\ nlast.failAt = 2
  /\ Importance(contents, messages[1]) > Threshold
  /\ chain = <<1>>

\* How many times the chain ch holds the message at buffer position k.
Commits(ch, k) == Cardinality({i \in 1..Len(ch) : ch[i] = k})

\* C19: cherrypick_messages is not idempotent on the chain: every pass that
\* returns commits each buffered message whose importance exceeds 0.5 once
\* more, whether or not the chain already holds it, and no other message.
C19_CommitsEveryPass ==
  [][ (nlast'.op = "cherrypick_messages" /\ nlast'.result = "None") =>
        \A k \in Buffered :
          Commits(chain', k) =
            Commits(chain, k)
              + (IF Importance(contents, messages[k]) > Threshold THEN 1 ELSE 0)
    ]_vars

\* C19 witness: two passes committed the same message twice.
C19_Witness ==
  /\ nlast.op = "cherrypick_messages" /\ nlast.result = "None"
  /\ \E k \in Buffered : Commits(chain, k) = 2

-----------------------------------------------------------------------------
(* Serialization of the topology.                                           *)

\* The neighbour list a serialized topology gives for node n.
Neighbours(doc, n) ==
  LET hits == SelectSeq(doc, LAMBDA entry : entry.key = n)
  IN  IF hits = <<>> THEN <<>> ELSE hits[1].value

\* The primitive a call ran: its own, or for execute the one named by the
\* action when the predicate agreed.
Applied(l) ==
  CASE l.op = "connect_edge" -> "connect"
    [] l.op = "disconnect_edge" -> "disconnect"
    [] l.op = "reverse_edge" -> "reverse"
    [] l.op = "execute" /\ l.agreed -> l.action
    [] OTHER -> "none"

\* The call l removes the edge n->v from the graph g.
RemovedBy(g, l, n, v) ==
  /\ Applied(l) \in {"disconnect", "reverse"}
  /\ n = l.start /\ v = l.end
  /\ HasEdge(g, n, v)

\* The neighbours of n whose edge the call l inserts into the graph g, after
\* its removal: connect an absent start->end, reverse the absent end->start.
InsertedBy(g, l, n) ==
  IF Applied(l) = "connect" /\ n = l.start /\ ~HasEdge(g, l.start, l.end)
  THEN <<l.end>>
  ELSE IF /\ Applied(l) = "reverse" /\ n = l.end
          /\ HasEdge(g, l.start, l.end)
          /\ (l.start = l.end \/ ~HasEdge(g, l.end, l.start))
       THEN <<l.start>>
       ELSE <<>>

\* C18: to_json maps every node of the graph, in node order, to its
\* out-neighbours in the order in which the edges to them were last
\* inserted.  Right after construction a node's
\* list follows the agent list (the order the pairs are enumerated in);
\* every later call drops from the list the neighbour whose edge it removed,
\* keeps the others in their order and puts the neighbour whose edge it
\* inserted at the end.
C18_ToJsonInsertionOrder ==
  [][ constructed' =>
        LET old == ToJson(graph)
        IN  ToJson(graph') =
              [k \in 1..Len(graph'.nodes) |->
                 LET n == graph'.nodes[k]
                 IN  [key |-> n,
                      value |->
                        IF constructed
                        THEN SelectSeq(Neighbours(old, n),
                               LAMBDA v : ~RemovedBy(graph, last', n, v))
                             \o InsertedBy(graph, last', n)
                        ELSE SelectSeq(agent_ids,
                               LAMBDA v : HasEdge(graph', n, v))]]
    ]_vars

\* C18 witness: an edge removed and inserted again is serialized after an
\* edge that was inserted before it at construction.
C18_Witness ==
  /\ constructed /\ nops = 2
  /\ last.op = "connect_edge" /\ last.changed
  /\ Neighbours(ToJson(graph), "a") = <<"c", "b">>

-----------------------------------------------------------------------------
(* WorldState serialization.                                                *)

EmptyOf(f) == IF f = "base_network" THEN PyDict ELSE PyList(<<>>)

\* C16: WorldState round-trips through serialization: to_json succeeds on
\* every constructed WorldState, from_json of what it returned succeeds and
\* yields the same five fields, and from_json of that payload less one
\* field yields the empty collection for the missing field and the same
\* values for the others.
C16_WorldStateRoundTrip ==
  /\ wlast.op = "to_json" => wlast.result = "str"
  /\ (wlast.op = "from_json" /\ ~wlast.nulled) =>
       /\ wlast.result = "WorldState"
       /\ \A f \in Fields :
            world2[f] = IF f = wlast.dropped THEN EmptyOf(f) ELSE world[f]

====
